---------------------------- MODULE Spec2Model ----------------------------
(***************************************************************************)
(* Rigid-body core of bevy-physics-weekend:                                *)
(*   physics/src/scene.rs   resolve_contact, PhysicsScene::{new,reset,     *)
(*                          update}                                        *)
(*   physics/src/constraints/constraint_penetration.rs                     *)
(*                          ConstraintPenetration::{new,pre_solve}         *)
(*                                                                         *)
(* Numbers.  Vec3 components, masses and coefficients are exact rationals  *)
(* <<numerator, denominator>> in lowest terms.  Times (delta_seconds,      *)
(* time_of_impact, accumulated_time) are f32 values counted in ticks of a  *)
(* fixed power of two of a second; every f32 subtraction and addition of   *)
(* the sub-stepping loop is rounded to the 24-bit significand of f32       *)
(* (round to nearest, ties to even).                                       *)
(* Handles are the 0-based indices the arena hands out; the arena is a     *)
(* sequence, so handle h is element h + 1.                                 *)
(***************************************************************************)
EXTENDS Integers, Sequences, FiniteSets, TLC

VARIABLES
    bodies,            \* PhysicsScene.bodies (BodyArena)
    constraints,       \* PhysicsScene.constraints (ConstraintArena)
    contacts,          \* PhysicsScene.contacts (ContactArena)
    step_num,          \* PhysicsScene.step_num
    paused,            \* PhysicsScene.paused
    pc,                \* position inside update / of the driver
    delta_seconds,     \* update's argument
    collision_pairs,   \* update's local: pairs still to be visited
    accumulated_time,  \* update's local
    contact_idx,       \* update's local: contacts replayed so far
    events,            \* history: what this step has done, in order
    deltas,            \* history: every dt handed to Body::update this step
    acc_after,         \* history: accumulated_time after each replayed contact
    pre,               \* history: the body arena when the operation began
    penetration,       \* a ConstraintPenetration and its ConstraintConfig
    presolve_calls     \* history: pre_solve calls made on `penetration`

vars == <<bodies, constraints, contacts, step_num, paused, pc, delta_seconds,
          collision_pairs, accumulated_time, contact_idx, events, deltas,
          acc_after, pre, penetration, presolve_calls>>

-----------------------------------------------------------------------------
(* Exact rational arithmetic *)

Abs(n) == IF n < 0 THEN -n ELSE n

RECURSIVE GCD(_, _)
GCD(a, b) == IF b = 0 THEN a ELSE GCD(b, a % b)

\* n/d in lowest terms with a positive denominator (d # 0)
Q(n, d) ==
    LET g == GCD(Abs(n), Abs(d))
        s == IF (n < 0) # (d < 0) THEN -1 ELSE 1
    IN  <<s * (Abs(n) \div g), Abs(d) \div g>>

I(n) == <<n, 1>>
RZero == I(0)
ROne == I(1)
RAdd(a, b) ==
    LET g == GCD(a[2], b[2])
    IN  Q(a[1] * (b[2] \div g) + b[1] * (a[2] \div g), (a[2] \div g) * b[2])
RNeg(a) == <<-a[1], a[2]>>
RSub(a, b) == RAdd(a, RNeg(b))
RMul(a, b) ==
    LET g1 == GCD(Abs(a[1]), b[2])
        g2 == GCD(Abs(b[1]), a[2])
    IN  <<(a[1] \div g1) * (b[1] \div g2), (a[2] \div g2) * (b[2] \div g1)>>
RDiv(a, b) == RMul(a, Q(b[2], b[1]))
RRecip(a) == RDiv(ROne, a)
RLt(a, b) == a[1] * b[2] < b[1] * a[2]
RLe(a, b) == a[1] * b[2] <= b[1] * a[2]
RMin(a, b) == IF RLe(a, b) THEN a ELSE b

(* glam::Vec3 *)
V(x, y, z) == <<I(x), I(y), I(z)>>
VZero == V(0, 0, 0)
VX == V(1, 0, 0)
VY == V(0, 1, 0)
VZ == V(0, 0, 1)
VAdd(a, b) == <<RAdd(a[1], b[1]), RAdd(a[2], b[2]), RAdd(a[3], b[3])>>
VSub(a, b) == <<RSub(a[1], b[1]), RSub(a[2], b[2]), RSub(a[3], b[3])>>
VNeg(a) == <<RNeg(a[1]), RNeg(a[2]), RNeg(a[3])>>
VScale(a, k) == <<RMul(a[1], k), RMul(a[2], k), RMul(a[3], k)>>
VDot(a, b) == RAdd(RAdd(RMul(a[1], b[1]), RMul(a[2], b[2])), RMul(a[3], b[3]))
VCross(a, b) ==
    <<RSub(RMul(a[2], b[3]), RMul(a[3], b[2])),
      RSub(RMul(a[3], b[1]), RMul(a[1], b[3])),
      RSub(RMul(a[1], b[2]), RMul(a[2], b[1]))>>

RAbs(a) == <<Abs(a[1]), a[2]>>
RMax(a, b) == IF RLe(a, b) THEN b ELSE a
\* the largest component magnitude of a non-zero vector (1 for the zero vector)
MaxComponent(a) ==
    IF a = VZero THEN ROne ELSE RMax(RAbs(a[1]), RMax(RAbs(a[2]), RAbs(a[3])))

-----------------------------------------------------------------------------
(* f32 times *)

\* significand width of f32, the type of delta_seconds and time_of_impact
F32MantissaBits == 24

RECURSIVE Pow2(_)
Pow2(k) == IF k = 0 THEN 1 ELSE 2 * Pow2(k - 1)

\* spacing of the f32 values around magnitude m (m in ticks)
RECURSIVE Ulp(_)
Ulp(m) == IF m < Pow2(F32MantissaBits) THEN 1 ELSE 2 * Ulp(m \div 2)

\* the f32 nearest to the real number n, ties to the even significand
RoundF32(n) ==
    LET m == Abs(n)
        q == Ulp(m)
        r == m % q
        base == m - r
        up == base + q
        res == IF 2 * r < q THEN base
               ELSE IF 2 * r > q THEN up
               ELSE IF (base \div q) % 2 = 0 THEN base ELSE up
    IN  IF n < 0 THEN -res ELSE res

F32Sub(a, b) == RoundF32(a - b)
F32Add(a, b) == RoundF32(a + b)

\* a time in ticks as the scalar that multiplies a velocity
Seconds(t) == I(t)

-----------------------------------------------------------------------------
(* Body and BodyArena: the access contract used by the core *)

\* orientation is kept as a rotation vector (axis * angle); identity is zero
QuatIdentity == VZero

\* orientation * v, to first order in the rotation vector
Rotate(orientation, v) == VAdd(v, VCross(orientation, v))
RotateInv(orientation, v) == VSub(v, VCross(orientation, v))

BodyDefault ==
    [position |-> VZero, orientation |-> QuatIdentity,
     linear_velocity |-> VZero, angular_velocity |-> VZero,
     inv_mass |-> RZero, elasticity |-> RZero, friction |-> RZero,
     shape |-> "box_small"]

has_infinite_mass(body) == body.inv_mass = RZero

\* every box of scene_shapes is centred on its local origin
centre_of_mass_world(body) == body.position

local_to_world(body, p) ==
    VAdd(centre_of_mass_world(body), Rotate(body.orientation, p))

world_to_local(body, p) ==
    RotateInv(body.orientation, VSub(p, centre_of_mass_world(body)))

\* inverse inertia of a solid cube of half extent 1: 3/2 * inv_mass * identity;
\* the sandbox boxes only ever have inv_mass 0
inv_intertia_tensor_world(body) == RMul(body.inv_mass, Q(3, 2))

\* Mat3 * Vec3 for the isotropic tensor above
MatMulVec(m, v) == VScale(v, m)

apply_impulse_linear(body, impulse) ==
    IF has_infinite_mass(body) THEN body
    ELSE [body EXCEPT !.linear_velocity = VAdd(@, VScale(impulse, body.inv_mass))]

apply_impulse_angular(body, impulse) ==
    IF has_infinite_mass(body) THEN body
    ELSE [body EXCEPT !.angular_velocity =
              VAdd(@, MatMulVec(inv_intertia_tensor_world(body), impulse))]

apply_impulse(body, impulse_point, impulse) ==
    IF has_infinite_mass(body) THEN body
    ELSE LET r == VSub(impulse_point, centre_of_mass_world(body))
         IN  apply_impulse_angular(apply_impulse_linear(body, impulse),
                                   VCross(r, impulse))

\* Body::update: an isotropic tensor gives no gyroscopic torque, and the
\* centre of mass is the position
BodyUpdate(body, dt_sec) ==
    [body EXCEPT
        !.position = VAdd(@, VScale(body.linear_velocity, Seconds(dt_sec))),
        !.orientation = VAdd(@, VScale(body.angular_velocity, Seconds(dt_sec)))]

\* for body in bodies.iter_mut() { body.update(dt) }
UpdateAll(bs, dt_sec) == [i \in DOMAIN bs |-> BodyUpdate(bs[i], dt_sec)]

get_body(bs, handle) == bs[handle + 1]

-----------------------------------------------------------------------------
(* scene.rs: resolve_contact *)

\* the impulse handed to body_b.apply_impulse for the normal impulse
ImpulseOnBSame(vec_impulse_j) == VNeg(vec_impulse_j)
ImpulseOnB(vec_impulse_j) == vec_impulse_j

\* the projection method: new positions of body_a and body_b
projection_swapped(body_a, body_b, ds, total_inv_mass) ==
    LET rcp_total_inv_mass == RRecip(total_inv_mass)
        t_a == RMul(body_a.inv_mass, rcp_total_inv_mass)
        t_b == RMul(body_b.inv_mass, rcp_total_inv_mass)
    IN  <<VAdd(body_a.position, VScale(ds, t_b)),
          VSub(body_b.position, VScale(ds, t_a))>>
projection_together(body_a, body_b, ds, total_inv_mass) ==
    LET rcp_total_inv_mass == RRecip(total_inv_mass)
        t_a == RMul(body_a.inv_mass, rcp_total_inv_mass)
        t_b == RMul(body_b.inv_mass, rcp_total_inv_mass)
    IN  <<VSub(body_a.position, VScale(ds, t_a)),
          VAdd(body_b.position, VScale(ds, t_b))>>
projection(body_a, body_b, ds, total_inv_mass) ==
    LET rcp_total_inv_mass == RRecip(total_inv_mass)
        t_a == RMul(body_a.inv_mass, rcp_total_inv_mass)
        t_b == RMul(body_b.inv_mass, rcp_total_inv_mass)
    IN  <<VAdd(body_a.position, VScale(ds, t_a)),
          VSub(body_b.position, VScale(ds, t_b))>>

\* contact.time_of_impact == 0.0
projects_always(contact) == TRUE
projects(contact) == contact.time_of_impact = 0

\* debug_assert!(!body_a.has_infinite_mass() || !body_b.has_infinite_mass())
resolve_precondition(bs, contact) ==
    \/ ~has_infinite_mass(get_body(bs, contact.handle_a))
    \/ ~has_infinite_mass(get_body(bs, contact.handle_b))

\* the projection method and the write-back of the two bodies
resolve_projection(bs, contact, body_a, body_b, point_on_a, point_on_b, total_inv_mass) ==
    [bs EXCEPT
        ![contact.handle_a + 1] =
            IF projects(contact)
            THEN [body_a EXCEPT !.position =
                     projection(body_a, body_b, VSub(point_on_b, point_on_a),
                                total_inv_mass)[1]]
            ELSE body_a,
        ![contact.handle_b + 1] =
            IF projects(contact)
            THEN [body_b EXCEPT !.position =
                     projection(body_a, body_b, VSub(point_on_b, point_on_a),
                                total_inv_mass)[2]]
            ELSE body_b]

\* rel_vel_tan = vel_tan / |vel_tan| (or zero).  |vel_tan| need not be
\* rational; rel_vel_tan is used only in the quadratic form inv_inertia, so
\* the form is taken on a rational multiple of it, vel_tan over its largest
\* component, and divided by that vector's squared length.
friction_inv_inertia(vel_tan, rel_vel_tan, ra, rb, inv_inertia_world_a, inv_inertia_world_b) ==
    LET inertia_a ==
            VCross(MatMulVec(inv_inertia_world_a, VCross(ra, rel_vel_tan)), ra)
        inertia_b ==
            VCross(MatMulVec(inv_inertia_world_b, VCross(rb, rel_vel_tan)), rb)
    IN  IF vel_tan = VZero THEN RZero
        ELSE RDiv(VDot(VAdd(inertia_a, inertia_b), rel_vel_tan),
                  VDot(rel_vel_tan, rel_vel_tan))

\* the kinetic friction impulse
friction_impulse(vel_tan, ra, rb, inv_inertia_world_a, inv_inertia_world_b, total_inv_mass, friction) ==
    LET inv_inertia ==
            friction_inv_inertia(vel_tan,
                VScale(vel_tan, RRecip(MaxComponent(vel_tan))), ra, rb,
                inv_inertia_world_a, inv_inertia_world_b)
        reduced_mass == RRecip(RAdd(total_inv_mass, inv_inertia))
    IN  VScale(VScale(vel_tan, reduced_mass), friction)

\* the two friction apply_impulse calls, then the projection
resolve_apply_friction(bs, contact, body_a, body_b, point_on_a, point_on_b, total_inv_mass, impulse_friction) ==
    resolve_projection(bs, contact,
        apply_impulse(body_a, point_on_a, VNeg(impulse_friction)),
        apply_impulse(body_b, point_on_b, impulse_friction),
        point_on_a, point_on_b, total_inv_mass)

\* friction caused impulse, on the bodies that already took the normal impulse
resolve_friction(bs, contact, body_a, body_b, point_on_a, point_on_b, ra, rb, inv_inertia_world_a, inv_inertia_world_b, vab, total_inv_mass) ==
    LET friction == RMul(body_a.friction, body_b.friction)
        vel_normal == VScale(contact.normal, VDot(contact.normal, vab))
        vel_tan == VSub(vab, vel_normal)
    IN  resolve_apply_friction(bs, contact, body_a, body_b, point_on_a,
            point_on_b, total_inv_mass,
            friction_impulse(vel_tan, ra, rb, inv_inertia_world_a,
                             inv_inertia_world_b, total_inv_mass, friction))

\* the two normal apply_impulse calls, then friction
resolve_apply_normal(bs, contact, body_a, body_b, point_on_a, point_on_b, ra, rb, inv_inertia_world_a, inv_inertia_world_b, vab, total_inv_mass, vec_impulse_j) ==
    resolve_friction(bs, contact,
        apply_impulse(body_a, point_on_a, VNeg(vec_impulse_j)),
        apply_impulse(body_b, point_on_b, ImpulseOnB(vec_impulse_j)),
        point_on_a, point_on_b, ra, rb, inv_inertia_world_a,
        inv_inertia_world_b, vab, total_inv_mass)

\* the collision impulse
normal_impulse_j(contact, elasticity, ra, rb, inv_inertia_world_a, inv_inertia_world_b, vab, total_inv_mass) ==
    LET angular_j_a ==
            VCross(MatMulVec(inv_inertia_world_a, VCross(ra, contact.normal)), ra)
        angular_j_b ==
            VCross(MatMulVec(inv_inertia_world_b, VCross(rb, contact.normal)), rb)
        angular_factor == VDot(VAdd(angular_j_a, angular_j_b), contact.normal)
    IN  RDiv(RMul(RAdd(ROne, elasticity), VDot(vab, contact.normal)),
             RAdd(total_inv_mass, angular_factor))

\* resolve_contact from the lever arms on
resolve_normal(bs, contact, body_a, body_b, point_on_a, point_on_b, ra, rb, inv_inertia_world_a, inv_inertia_world_b, vab, total_inv_mass) ==
    LET elasticity == RMul(body_a.elasticity, body_b.elasticity)
        impulse_j == normal_impulse_j(contact, elasticity, ra, rb,
                         inv_inertia_world_a, inv_inertia_world_b, vab,
                         total_inv_mass)
    IN  resolve_apply_normal(bs, contact, body_a, body_b, point_on_a,
            point_on_b, ra, rb, inv_inertia_world_a, inv_inertia_world_b, vab,
            total_inv_mass, VScale(contact.normal, impulse_j))

\* resolve_contact from the world-space contact points on
resolve_at(bs, contact, body_a, body_b, point_on_a, point_on_b, ra, rb) ==
    LET vel_a == VAdd(body_a.linear_velocity, VCross(body_a.angular_velocity, ra))
        vel_b == VAdd(body_b.linear_velocity, VCross(body_b.angular_velocity, rb))
    IN  resolve_normal(bs, contact, body_a, body_b, point_on_a, point_on_b,
            ra, rb, inv_intertia_tensor_world(body_a),
            inv_intertia_tensor_world(body_b), VSub(vel_a, vel_b),
            RAdd(body_a.inv_mass, body_b.inv_mass))

resolve_points(bs, contact, body_a, body_b, point_on_a, point_on_b) ==
    resolve_at(bs, contact, body_a, body_b, point_on_a, point_on_b,
               VSub(point_on_a, centre_of_mass_world(body_a)),
               VSub(point_on_b, centre_of_mass_world(body_b)))

resolve_contact(bs, contact) ==
    resolve_points(bs, contact,
        get_body(bs, contact.handle_a), get_body(bs, contact.handle_b),
        local_to_world(get_body(bs, contact.handle_a), contact.local_point_a),
        local_to_world(get_body(bs, contact.handle_b), contact.local_point_b))

-----------------------------------------------------------------------------
(* scene.rs: add_standard_sandbox, PhysicsScene::new, PhysicsScene::reset *)

NUM_JOINTS == 5
MAX_ITERS == 5

StaticBox(pos, fric, shp) ==
    [position |-> pos, orientation |-> QuatIdentity,
     linear_velocity |-> VZero, angular_velocity |-> VZero,
     inv_mass |-> RZero, elasticity |-> Q(1, 2), friction |-> fric,
     shape |-> shp]

\* BodyArena::add / add_with_color: the new handle is the old length
BodyArenaAdd(bs, body) == [arena |-> Append(bs, body), handle |-> Len(bs)]

add_standard_sandbox(bs) ==
    bs \o << StaticBox(VZero, Q(1, 2), "box_ground"),
             StaticBox(V(50, 0, 0), RZero, "box_wall0"),
             StaticBox(V(-50, 0, 0), RZero, "box_wall0"),
             StaticBox(V(0, 0, 25), RZero, "box_wall1"),
             StaticBox(V(0, 0, -25), RZero, "box_wall1") >>

\* ConstraintArena::add_distance_constraint
add_distance_constraint(cs, config) == Append(cs, config)

\* handle_a = handle_b, the last statement of the loop body
next_handle_a_stuck(handle_a, handle_b) == handle_a
next_handle_a(handle_a, handle_b) == handle_b

\* for _ in 0..NUM_JOINTS { ... }: k iterations still to run
RECURSIVE joint_loop(_, _, _, _)
joint_loop(k, bs, cs, handle_a) ==
    IF k = 0 THEN [bodies |-> bs, constraints |-> cs]
    ELSE LET body_a == get_body(bs, handle_a)
             joint_world_space_anchor == body_a.position
             anchor_a == world_to_local(body_a, joint_world_space_anchor)
             body_b == [BodyDefault EXCEPT
                           !.position = VAdd(body_a.position, VX),
                           !.inv_mass = ROne,
                           !.elasticity = ROne]
             anchor_b == world_to_local(body_b, joint_world_space_anchor)
             added == BodyArenaAdd(bs, body_b)
             handle_b == added.handle
             cs2 == add_distance_constraint(cs,
                        [handle_a |-> handle_a, handle_b |-> handle_b,
                         anchor_a |-> anchor_a, anchor_b |-> anchor_b,
                         axis_a |-> VZero, axis_b |-> VZero])
         IN  joint_loop(k - 1, added.arena, cs2, next_handle_a(handle_a, handle_b))

\* PhysicsScene::reset on a scene holding bodies bs0 and constraints cs0:
\* both arenas are cleared first
reset(bs0, cs0) ==
    LET cleared_bodies == SubSeq(bs0, 1, 0)
        cleared_constraints == SubSeq(cs0, 1, 0)
        first == BodyArenaAdd(cleared_bodies,
                     [BodyDefault EXCEPT
                         !.position = V(0, NUM_JOINTS + 3, 5),
                         !.inv_mass = RZero,
                         !.elasticity = ROne])
        chain == joint_loop(NUM_JOINTS, first.arena, cleared_constraints,
                            first.handle)
    IN  [bodies |-> add_standard_sandbox(chain.bodies),
         constraints |-> chain.constraints]

-----------------------------------------------------------------------------
(* collaborators of PhysicsScene::update *)

\* update calls between two resets
MaxSteps == 1

\* step lengths, in ticks
DtChoices == {2}

\* candidate pairs in the order the broadphase reports them:
\* anchor/link, link/link, anchor/ground (both of infinite mass)
CandidateSeq == << <<0, 1>>, <<2, 1>>, <<0, 6>> >>

Min(S) == CHOOSE x \in S : \A y \in S : x <= y

RECURSIVE PickInOrder(_)
PickInOrder(J) ==
    IF J = {} THEN <<>>
    ELSE <<CandidateSeq[Min(J)]>> \o PickInOrder(J \ {Min(J)})

\* broadphase(bodies, dt): any of the candidates
BroadphaseResults == {PickInOrder(J) : J \in SUBSET (1..Len(CandidateSeq))}

\* the contact geometry the narrowphase reports for a pair: local points
\* and world normal
Geometry(pair) ==
    IF pair[1] < pair[2]
    THEN [local_point_a |-> <<I(0), Q(-3, 5), I(0)>>,
          local_point_b |-> <<I(0), Q(1, 2), I(0)>>, normal |-> VNeg(VY)]
    ELSE [local_point_a |-> <<I(0), Q(1, 2), I(0)>>,
          local_point_b |-> <<I(0), Q(-1, 4), I(0)>>, normal |-> VY]

\* intersect_dynamic(pair.a, body_a, pair.b, body_b, dt): Some(contact) with
\* a time of impact in [0, dt]; None is the empty set
IntersectResults(pair, dt) ==
    { [handle_a |-> pair[1], handle_b |-> pair[2],
       local_point_a |-> Geometry(pair).local_point_a,
       local_point_b |-> Geometry(pair).local_point_b,
       normal |-> Geometry(pair).normal, time_of_impact |-> t] : t \in 0..dt }

\* ContactArena::sort: stable, ascending time of impact
RECURSIVE InsertContact(_, _)
InsertContact(sorted, c) ==
    IF sorted = <<>> THEN <<c>>
    ELSE IF sorted[Len(sorted)].time_of_impact <= c.time_of_impact
         THEN Append(sorted, c)
         ELSE Append(InsertContact(SubSeq(sorted, 1, Len(sorted) - 1), c),
                     sorted[Len(sorted)])

RECURSIVE SortContacts(_)
SortContacts(cs) ==
    IF cs = <<>> THEN <<>>
    ELSE InsertContact(SortContacts(SubSeq(cs, 1, Len(cs) - 1)), cs[Len(cs)])

\* impulses a distance constraint may settle on (its Lagrange multiplier)
SolverLambdas == {RZero, ROne}

\* one distance constraint's impulse pair J^T * lambda: equal and opposite,
\* across the link, applied at the two anchors
SolveOne(bs, config, lambda) ==
    LET body_a == get_body(bs, config.handle_a)
        body_b == get_body(bs, config.handle_b)
        world_anchor_a == local_to_world(body_a, config.anchor_a)
        world_anchor_b == local_to_world(body_b, config.anchor_b)
        impulse == VScale(VZ, lambda)
    IN  [bs EXCEPT
            ![config.handle_a + 1] = apply_impulse(body_a, world_anchor_a, impulse),
            ![config.handle_b + 1] =
                apply_impulse(body_b, world_anchor_b, VNeg(impulse))]

RECURSIVE SolveSweep(_, _, _)
SolveSweep(bs, cs, lambda) ==
    IF cs = <<>> THEN bs
    ELSE SolveSweep(SolveOne(bs, Head(cs), lambda), Tail(cs), lambda)

\* ConstraintArena::solve(bodies, dt, max_iters): max_iters sweeps over the
\* constraints in insertion order
RECURSIVE ConstraintArenaSolve(_, _, _, _)
ConstraintArenaSolve(bs, cs, lambda, iters) ==
    IF iters = 0 THEN bs
    ELSE ConstraintArenaSolve(SolveSweep(bs, cs, lambda), cs, lambda, iters - 1)

-----------------------------------------------------------------------------
(* scene.rs: PhysicsScene::update, one action per phase *)

\* the gravity impulse loop
gravity_impulse(body, dt) ==
    IF ~has_infinite_mass(body)
    THEN LET impulse_gravity ==
                 VScale(VScale(V(0, -10, 0), RRecip(body.inv_mass)), Seconds(dt))
         IN  apply_impulse_linear(body, impulse_gravity)
    ELSE body

\* if body_a.has_infinite_mass() && body_b.has_infinite_mass() { continue; }
skip_pair_never(body_a, body_b) == FALSE
skip_pair(body_a, body_b) == has_infinite_mass(body_a) /\ has_infinite_mass(body_b)

\* self.contacts.sort()
sort_skipped(cs) == cs
sort(cs) == SortContacts(cs)

\* the statement that follows self.contacts.sort(): the constraint solve
after_sort_replay == "replay"
after_sort == "solve"

\* contact.time_of_impact - accumulated_time
contact_time_of(contact, acc) == F32Sub(contact.time_of_impact, acc)

\* accumulated_time += contact_time
accumulate_toi(acc, contact_time, contact) == F32Add(acc, contact.time_of_impact)
accumulate(acc, contact_time, contact) == F32Add(acc, contact_time)

\* delta_seconds - accumulated_time
time_remaining_of(dt, acc) == F32Sub(dt, acc)

\* update entry: step counter, gravity impulses, broadphase, contacts.clear()
UpdateBegin ==
    /\ pc = "idle"
    /\ step_num < MaxSteps
    /\ \E dt \in DtChoices, pairs \in BroadphaseResults :
          /\ delta_seconds' = dt
          /\ collision_pairs' = pairs
          /\ bodies' = [i \in DOMAIN bodies |-> gravity_impulse(bodies[i], dt)]
    /\ step_num' = step_num + 1
    /\ pre' = bodies
    /\ contacts' = <<>>
    /\ events' = <<"gravity", "broadphase">>
    /\ deltas' = <<>>
    /\ acc_after' = <<>>
    /\ accumulated_time' = 0
    /\ contact_idx' = 0
    /\ pc' = "narrowphase"
    /\ UNCHANGED <<constraints, paused, penetration, presolve_calls>>

\* one iteration of `for pair in collision_pairs`
Narrowphase ==
    /\ pc = "narrowphase"
    /\ collision_pairs # <<>>
    /\ LET pair == Head(collision_pairs)
           body_a == get_body(bodies, pair[1])
           body_b == get_body(bodies, pair[2])
       IN  IF skip_pair(body_a, body_b)
           THEN contacts' = contacts
           ELSE \/ contacts' = contacts
                \/ \E contact \in IntersectResults(pair, delta_seconds) :
                      contacts' = Append(contacts, contact)
    /\ collision_pairs' = Tail(collision_pairs)
    /\ events' = Append(events,
                    IF skip_pair(get_body(bodies, Head(collision_pairs)[1]),
                                 get_body(bodies, Head(collision_pairs)[2]))
                    THEN "skip" ELSE "narrowphase")
    /\ UNCHANGED <<bodies, constraints, step_num, paused, pc, delta_seconds,
                   accumulated_time, contact_idx, deltas, acc_after, pre,
                   penetration, presolve_calls>>

\* self.contacts.sort()
Sort ==
    /\ pc = "narrowphase"
    /\ collision_pairs = <<>>
    /\ contacts' = sort(contacts)
    /\ events' = Append(events, "sort")
    /\ pc' = after_sort
    /\ UNCHANGED <<bodies, constraints, step_num, paused, delta_seconds,
                   collision_pairs, accumulated_time, contact_idx, deltas,
                   acc_after, pre, penetration, presolve_calls>>

\* self.constraints.solve(&mut self.bodies, delta_seconds, MAX_ITERS)
Solve ==
    /\ pc = "solve"
    /\ \E lambda \in SolverLambdas :
          bodies' = ConstraintArenaSolve(bodies, constraints, lambda, MAX_ITERS)
    /\ events' = Append(events, "solve")
    /\ accumulated_time' = 0
    /\ pc' = "replay"
    /\ UNCHANGED <<constraints, contacts, step_num, paused, delta_seconds,
                   collision_pairs, contact_idx, deltas, acc_after, pre,
                   penetration, presolve_calls>>

\* one iteration of `for contact in self.contacts.iter()`; the resolver's
\* debug_assert stops the step on a pair of two infinite masses
ReplayContact ==
    /\ pc = "replay"
    /\ contact_idx < Len(contacts)
    /\ LET contact == contacts[contact_idx + 1]
           contact_time == contact_time_of(contact, accumulated_time)
           advanced == UpdateAll(bodies, contact_time)
       IN  /\ deltas' = Append(deltas, contact_time)
           /\ IF resolve_precondition(advanced, contact)
              THEN /\ bodies' = resolve_contact(advanced, contact)
                   /\ accumulated_time' =
                          accumulate(accumulated_time, contact_time, contact)
                   /\ acc_after' = Append(acc_after, accumulated_time')
                   /\ contact_idx' = contact_idx + 1
                   /\ events' = events \o <<"update", "resolve">>
                   /\ pc' = "replay"
              ELSE /\ bodies' = advanced
                   /\ events' = events \o <<"update", "panic">>
                   /\ pc' = "panic"
                   /\ UNCHANGED <<accumulated_time, acc_after, contact_idx>>
    /\ UNCHANGED <<constraints, contacts, step_num, paused, delta_seconds,
                   collision_pairs, pre, penetration, presolve_calls>>

\* the rest of the frame's time
Remainder ==
    /\ pc = "replay"
    /\ contact_idx = Len(contacts)
    /\ LET time_remaining == time_remaining_of(delta_seconds, accumulated_time)
       IN  IF time_remaining > 0
           THEN /\ bodies' = UpdateAll(bodies, time_remaining)
                /\ deltas' = Append(deltas, time_remaining)
                /\ events' = Append(events, "update")
           ELSE UNCHANGED <<bodies, deltas, events>>
    /\ pc' = "idle"
    /\ UNCHANGED <<constraints, contacts, step_num, paused, delta_seconds,
                   collision_pairs, accumulated_time, contact_idx, acc_after,
                   pre, penetration, presolve_calls>>

\* PhysicsScene::reset between two steps
Reset ==
    /\ pc = "idle"
    /\ LET r == reset(bodies, constraints)
       IN  /\ bodies' = r.bodies
           /\ constraints' = r.constraints
           /\ pre' = r.bodies
    /\ step_num' = 0
    /\ paused' = TRUE
    /\ contacts' = <<>>
    /\ events' = <<>>
    /\ deltas' = <<>>
    /\ acc_after' = <<>>
    /\ UNCHANGED <<pc, delta_seconds, collision_pairs, accumulated_time,
                   contact_idx, penetration, presolve_calls>>

NoPenetration == [kind |-> "none"]

\* PhysicsScene::new
Init ==
    /\ LET r == reset(<<>>, <<>>)
       IN  /\ bodies = r.bodies
           /\ constraints = r.constraints
           /\ pre = r.bodies
    /\ contacts = <<>>
    /\ step_num = 0
    /\ paused = TRUE
    /\ pc = "idle"
    /\ delta_seconds = 0
    /\ collision_pairs = <<>>
    /\ accumulated_time = 0
    /\ contact_idx = 0
    /\ events = <<>>
    /\ deltas = <<>>
    /\ acc_after = <<>>
    /\ penetration = NoPenetration
    /\ presolve_calls = 0

Next ==
    \/ UpdateBegin
    \/ Narrowphase
    \/ Sort
    \/ Solve
    \/ ReplayContact
    \/ Remainder
    \/ Reset

Spec == Init /\ [][Next]_vars

-----------------------------------------------------------------------------
(* properties of PhysicsScene::new, reset and update *)

\* positions of event e in the log of the current step
Positions(e) == {i \in 1..Len(events) : events[i] = e}

\* the current step has run to its end
StepDone == pc = "idle" /\ events # <<>>

\* C2: resolve_contact is never reached with two bodies of infinite mass:
\* no contact of the arena couples two such bodies, whatever pairs the
\* broadphase returned, and the resolver's assertion never fails.
C2_NoInfinitePairResolved ==
    /\ pc # "panic"
    /\ Positions("panic") = {}
    /\ \A i \in 1..Len(contacts) : resolve_precondition(bodies, contacts[i])

\* a step that skipped a pair of two infinite masses and resolved a contact
C2_Witness ==
    /\ StepDone
    /\ Positions("skip") # {}
    /\ Positions("resolve") # {}

\* C3: the constraint solve runs exactly once per step, with any number of
\* contacts: after gravity, narrowphase and sort, before the first
\* Body::update and the first resolve_contact, never between sub-steps.
C3_SolveOncePerStep ==
    /\ Cardinality(Positions("solve")) <= 1
    /\ (pc = "replay" \/ StepDone) => Cardinality(Positions("solve")) = 1
    /\ \A s \in Positions("solve") :
          /\ \A i \in Positions("gravity") \cup Positions("broadphase")
                      \cup Positions("narrowphase") \cup Positions("skip")
                      \cup Positions("sort") : i < s
          /\ Positions("sort") # {}
          /\ \A i \in Positions("update") \cup Positions("resolve") : s < i
    /\ (Positions("update") \cup Positions("resolve")) # {}
          => Positions("solve") # {}

\* a finished step with two contacts replayed after its one solve
C3_Witness ==
    /\ StepDone
    /\ Cardinality(Positions("resolve")) = 2
    /\ Cardinality(Positions("solve")) = 1

\* a finished step without contacts that still ran the solve
C3_WitnessNoContact ==
    /\ StepDone
    /\ contacts = <<>>
    /\ Cardinality(Positions("solve")) = 1

\* C4: contacts are replayed in non-decreasing time-of-impact order, each
\* resolved exactly once, and before each resolve_contact all bodies are
\* advanced by the time since the previous event (since the step's start
\* for the first contact).
C4_ReplayInTimeOrder ==
    (pc = "replay" \/ StepDone) =>
        /\ \A i \in 1..Len(contacts), j \in 1..Len(contacts) :
              i < j => contacts[i].time_of_impact <= contacts[j].time_of_impact
        /\ Cardinality(Positions("resolve")) = contact_idx
        /\ StepDone => contact_idx = Len(contacts)
        /\ \A i \in Positions("resolve") : i > 1 /\ events[i - 1] = "update"
        /\ \A i \in 1..contact_idx :
              deltas[i] = contacts[i].time_of_impact -
                          (IF i = 1 THEN 0 ELSE contacts[i - 1].time_of_impact)

\* a finished step that replayed two contacts with different times of impact
C4_Witness ==
    /\ StepDone
    /\ Len(contacts) = 2
    /\ contacts[1].time_of_impact < contacts[2].time_of_impact
    /\ Cardinality(Positions("resolve")) = 2

\* C5: every constraint references two distinct handles present in the body
\* arena; the constraints are the chain of NUM_JOINTS distance constraints
\* reset builds, each coupling a body to the body added right after it, and
\* the first chain body has inverse mass 0.
C5_ConstraintHandlesValid ==
    /\ \A i \in 1..Len(constraints) :
          /\ constraints[i].handle_a # constraints[i].handle_b
          /\ constraints[i].handle_a \in 0..(Len(bodies) - 1)
          /\ constraints[i].handle_b \in 0..(Len(bodies) - 1)
          /\ constraints[i].handle_a = i - 1
          /\ constraints[i].handle_b = i
    /\ Len(constraints) = NUM_JOINTS
    /\ bodies[1].inv_mass = RZero

\* the scene after a reset that followed an update step
C5_Witness ==
    /\ pc = "idle"
    /\ step_num = 0
    /\ delta_seconds > 0
    /\ Len(constraints) = NUM_JOINTS
    /\ Len(bodies) = NUM_JOINTS + 6

\* C6: a body of inverse mass 0 keeps its position, orientation, linear and
\* angular velocity through every phase of an update step.
C6_StaticBodiesFixed ==
    /\ Len(bodies) = Len(pre)
    /\ \A i \in 1..Len(pre) :
          pre[i].inv_mass = RZero => bodies[i] = pre[i]

\* a finished step that resolved a zero-time contact between the chain's
\* static anchor and a link, and moved the link
C6_Witness ==
    /\ StepDone
    /\ \E i \in 1..Len(contacts) :
          /\ contacts[i].time_of_impact = 0
          /\ has_infinite_mass(get_body(bodies, contacts[i].handle_a))
          /\ get_body(bodies, contacts[i].handle_b).position #
                get_body(pre, contacts[i].handle_b).position
    /\ Positions("resolve") # {}

-----------------------------------------------------------------------------
(* resolve_contact on its own: one call on a two-body arena *)

InvMassChoices == {RZero, ROne, I(2)}
VelocityChoicesA == {VZero, V(1, 0, 0), V(1, 2, 0)}
VelocityChoicesB == {VZero, V(-1, 0, 0)}
AngularChoicesA == {VZero, V(0, 0, 1)}
\* elasticity and friction of the two bodies
CoefficientChoices ==
    { [ea |-> ROne, eb |-> ROne, fa |-> RZero, fb |-> RZero],
      [ea |-> Q(1, 2), eb |-> ROne, fa |-> RZero, fb |-> Q(1, 2)],
      [ea |-> Q(1, 2), eb |-> Q(1, 2), fa |-> Q(1, 2), fb |-> Q(1, 2)] }
NormalChoices == {VX, VNeg(VX), VY}
\* body B 0.95 or 1.05 from body A along x: the unit boxes overlap by 0.05
\* or are 0.05 apart
PositionChoicesB == {<<Q(19, 20), I(0), I(0)>>, <<Q(21, 20), I(0), I(0)>>}
LocalPointChoicesB == {<<Q(-1, 2), I(0), I(0)>>, <<Q(-2, 5), Q(1, 4), I(0)>>}

ResolveInputs ==
    { [a |-> [BodyDefault EXCEPT !.inv_mass = ima, !.linear_velocity = va,
                                 !.angular_velocity = wa,
                                 !.elasticity = co.ea, !.friction = co.fa],
       b |-> [BodyDefault EXCEPT !.position = pb, !.inv_mass = imb,
                                 !.linear_velocity = vb,
                                 !.elasticity = co.eb, !.friction = co.fb],
       contact |-> [handle_a |-> 0, handle_b |-> 1,
                    local_point_a |-> <<Q(1, 2), I(0), I(0)>>,
                    local_point_b |-> lpb, normal |-> n,
                    time_of_impact |-> t]] :
        ima \in InvMassChoices, imb \in InvMassChoices,
        va \in VelocityChoicesA, vb \in VelocityChoicesB,
        wa \in AngularChoicesA, co \in CoefficientChoices,
        pb \in PositionChoicesB, lpb \in LocalPointChoicesB,
        n \in NormalChoices, t \in 0..1 }

InitResolve ==
    /\ \E in \in ResolveInputs :
          /\ bodies = <<in.a, in.b>>
          /\ pre = <<in.a, in.b>>
          /\ contacts = <<in.contact>>
    /\ constraints = <<>>
    /\ step_num = 0
    /\ paused = TRUE
    /\ pc = "resolve"
    /\ delta_seconds = 1
    /\ collision_pairs = <<>>
    /\ accumulated_time = 0
    /\ contact_idx = 0
    /\ events = <<>>
    /\ deltas = <<>>
    /\ acc_after = <<>>
    /\ penetration = NoPenetration
    /\ presolve_calls = 0

\* resolve_contact(&mut bodies, &contact)
ResolveCall ==
    /\ pc = "resolve"
    /\ IF resolve_precondition(bodies, contacts[1])
       THEN /\ bodies' = resolve_contact(bodies, contacts[1])
            /\ events' = <<"resolve">>
            /\ pc' = "resolved"
       ELSE /\ bodies' = bodies
            /\ events' = <<"panic">>
            /\ pc' = "panic"
    /\ UNCHANGED <<constraints, contacts, step_num, paused, delta_seconds,
                   collision_pairs, accumulated_time, contact_idx, deltas,
                   acc_after, pre, penetration, presolve_calls>>

NextResolve == ResolveCall

SpecResolve == InitResolve /\ [][NextResolve]_vars

-----------------------------------------------------------------------------
(* properties of resolve_contact *)

\* the call returned
Resolved == pc = "resolved"

\* the world-space contact points seen on the bodies of arena bs
PointOnA(bs) == local_to_world(bs[1], contacts[1].local_point_a)
PointOnB(bs) == local_to_world(bs[2], contacts[1].local_point_b)

\* ds = point_on_b - point_on_a at the call
DsAtCall == VSub(PointOnB(pre), PointOnA(pre))

\* the share inv_mass / (inv_mass_a + inv_mass_b) of a body
Share(inv_mass) == RDiv(inv_mass, RAdd(pre[1].inv_mass, pre[2].inv_mass))

\* (point_on_b - point_on_a) . n on the bodies of arena bs
Separation(bs) == VDot(VSub(PointOnB(bs), PointOnA(bs)), contacts[1].normal)

\* the 0.05 overlap along x of two bodies of equal inverse mass
OverlapCase ==
    /\ pre[1].inv_mass = pre[2].inv_mass
    /\ pre[1].inv_mass # RZero
    /\ contacts[1].time_of_impact = 0
    /\ DsAtCall = <<Q(-1, 20), I(0), I(0)>>

\* C7: resolve_contact translates positions exactly when time_of_impact is
\* 0; then A moves by ds * invMassA / (invMassA + invMassB) and B by
\* -ds * invMassB / (invMassA + invMassB), a static body is not moved, and
\* equal inverse masses overlapping by 0.05 along x move by 0.025 each,
\* in opposite directions.
C7_ProjectionSplit ==
    Resolved =>
        /\ contacts[1].time_of_impact # 0 =>
              /\ bodies[1].position = pre[1].position
              /\ bodies[2].position = pre[2].position
        /\ contacts[1].time_of_impact = 0 =>
              /\ bodies[1].position =
                    VAdd(pre[1].position, VScale(DsAtCall, Share(pre[1].inv_mass)))
              /\ bodies[2].position =
                    VSub(pre[2].position, VScale(DsAtCall, Share(pre[2].inv_mass)))
              /\ \A i \in 1..2 :
                    pre[i].inv_mass = RZero => bodies[i].position = pre[i].position
        /\ OverlapCase =>
              /\ VSub(bodies[1].position, pre[1].position) = <<Q(-1, 40), I(0), I(0)>>
              /\ VSub(bodies[2].position, pre[2].position) = <<Q(1, 40), I(0), I(0)>>

\* the 0.05 overlap resolved: both boxes moved
C7_Witness ==
    /\ Resolved
    /\ OverlapCase
    /\ bodies[1].position # pre[1].position
    /\ bodies[2].position # pre[2].position

\* C8 as stated: after the projection of a zero-time contact the separation
\* along the normal is at least its value before the correction, for every
\* contact geometry.
C8_SeparationNeverDecreases ==
    (Resolved /\ contacts[1].time_of_impact = 0) =>
        RLe(Separation(pre), Separation(bodies))

\* C8: after the projection of a zero-time contact the two contact points
\* coincide along the normal, so the separation did not decrease whenever it
\* was not positive before the correction.
C8_SeparationClosed ==
    (Resolved /\ contacts[1].time_of_impact = 0) =>
        /\ Separation(bodies) = RZero
        /\ RLe(Separation(pre), RZero) => RLe(Separation(pre), Separation(bodies))

\* a penetrating zero-time contact whose separation the projection raised
C8_Witness ==
    /\ Resolved
    /\ contacts[1].time_of_impact = 0
    /\ RLt(Separation(pre), RZero)
    /\ RLt(Separation(pre), Separation(bodies))

\* mass * velocity along the contact normal, summed over the two bodies
NormalMomentum(bs) ==
    RAdd(RMul(RRecip(bs[1].inv_mass),
              VDot(bs[1].linear_velocity, contacts[1].normal)),
         RMul(RRecip(bs[2].inv_mass),
              VDot(bs[2].linear_velocity, contacts[1].normal)))

\* equal finite masses, elasticity 1, no friction
ElasticCase ==
    /\ pre[1].inv_mass = pre[2].inv_mass
    /\ pre[1].inv_mass # RZero
    /\ RMul(pre[1].elasticity, pre[2].elasticity) = ROne
    /\ RMul(pre[1].friction, pre[2].friction) = RZero

\* the change of a body's linear velocity over the call
VelocityChange(i) == VSub(bodies[i].linear_velocity, pre[i].linear_velocity)

\* C10: for equal finite masses, elasticity 1 and friction 0, resolve_contact
\* conserves linear momentum along the normal: the velocity changes of A and
\* B lie along the normal and are opposite, -j n on A and +j n on B.
C10_NormalMomentumConserved ==
    (Resolved /\ ElasticCase) =>
        /\ NormalMomentum(bodies) = NormalMomentum(pre)
        /\ VelocityChange(1) = VNeg(VelocityChange(2))
        /\ VCross(VelocityChange(1), contacts[1].normal) = VZero

\* an elastic, frictionless collision of equal masses that changed both
\* velocities
C10_Witness ==
    /\ Resolved
    /\ ElasticCase
    /\ VelocityChange(1) # VZero
    /\ VelocityChange(2) # VZero

-----------------------------------------------------------------------------
(* the sub-stepping loop of update on f32 times that need not share a grid *)

\* contacts in one step
MaxContacts == 3

\* ticks: small times, and times just above 2^24 ticks, where f32 values
\* are 2 ticks apart
TimeChoices == {0, 1, 3, Pow2(F32MantissaBits) + 2}
StepChoices == {3, Pow2(F32MantissaBits) + 2, Pow2(F32MantissaBits) + 4}

RECURSIVE SortedTimes(_)
\* the non-decreasing sequences of n times
SortedTimes(n) ==
    IF n = 0 THEN {<<>>}
    ELSE {Append(s, t) : s \in SortedTimes(n - 1), t \in TimeChoices} \cap
         {s \in [1..n -> TimeChoices] : \A i \in 1..(n - 1) : s[i] <= s[i + 1]}

\* two finite-mass boxes at rest, overlapping by a tenth
RestingArena ==
    << [BodyDefault EXCEPT !.inv_mass = ROne, !.elasticity = ROne],
       [BodyDefault EXCEPT !.position = <<Q(9, 10), I(0), I(0)>>,
                           !.inv_mass = ROne, !.elasticity = ROne] >>

TimedContact(t) ==
    [handle_a |-> 0, handle_b |-> 1,
     local_point_a |-> <<Q(1, 2), I(0), I(0)>>,
     local_point_b |-> <<Q(-1, 2), I(0), I(0)>>,
     normal |-> VX, time_of_impact |-> t]

\* update after the sort and the solve, about to replay its contacts
InitTime ==
    /\ \E dt \in StepChoices, n \in 0..MaxContacts :
         \E ts \in SortedTimes(n) :
            /\ \A i \in 1..n : ts[i] <= dt
            /\ delta_seconds = dt
            /\ contacts = [i \in 1..n |-> TimedContact(ts[i])]
    /\ bodies = RestingArena
    /\ pre = RestingArena
    /\ constraints = <<>>
    /\ step_num = 1
    /\ paused = TRUE
    /\ pc = "replay"
    /\ collision_pairs = <<>>
    /\ accumulated_time = 0
    /\ contact_idx = 0
    /\ events = <<"gravity", "broadphase", "sort", "solve">>
    /\ deltas = <<>>
    /\ acc_after = <<>>
    /\ penetration = NoPenetration
    /\ presolve_calls = 0

NextTime ==
    \/ ReplayContact
    \/ Remainder

SpecTime == InitTime /\ [][NextTime]_vars

-----------------------------------------------------------------------------
(* properties of the sub-stepping loop *)

RECURSIVE SumSeq(_)
SumSeq(q) == IF q = <<>> THEN 0 ELSE Head(q) + SumSeq(Tail(q))

\* the time accounting of one step: accumulated_time after contact i is t_i,
\* no delta is negative, and at the end of the step the deltas handed to
\* Body::update, the remainder included, sum to delta_seconds
TimeAccounting ==
    /\ \A i \in 1..Len(acc_after) : acc_after[i] = contacts[i].time_of_impact
    /\ \A i \in 1..Len(deltas) : deltas[i] >= 0
    /\ pc = "idle" => SumSeq(deltas) = delta_seconds

\* C1 as stated: for any sorted times of impact 0 <= t1 <= ... <= tn <= dt
\* the deltas plus the remainder sum to exactly dt, every delta is >= 0 and
\* accumulated_time after contact i equals t_i.
C1_TimeExact == TimeAccounting

\* C1: the same, for steps whose times are whole ticks below 2^24, where
\* every f32 subtraction and addition of the loop is exact.
C1_TimeExactOnGrid ==
    delta_seconds < Pow2(F32MantissaBits) => TimeAccounting

\* a finished step on the grid with two contacts at different times and a
\* remainder
C1_Witness ==
    /\ pc = "idle"
    /\ delta_seconds < Pow2(F32MantissaBits)
    /\ Len(contacts) >= 2
    /\ contacts[1].time_of_impact < contacts[2].time_of_impact
    /\ Len(deltas) = Len(contacts) + 1
    /\ SumSeq(deltas) = delta_seconds

-----------------------------------------------------------------------------
(* constraint_penetration.rs: ConstraintPenetration::new and pre_solve *)

VecNZero == <<RZero, RZero, RZero>>
RowZero == [c \in 1..12 |-> RZero]
\* MatMN::<3, 12>::zero()
MatMNZero == <<RowZero, RowZero, RowZero>>

\* ConstraintPenetration::new
ConstraintPenetrationNew ==
    [kind |-> "penetration", jacobian |-> MatMNZero, cached_lambda |-> VecNZero,
     normal |-> VZero, baumgarte |-> RZero, friction |-> RZero]

\* glam Vec3::any_orthonormal_pair; f32::signum(0.0) is 1.0
any_orthonormal_pair(n) ==
    LET sign == IF RLt(n[3], RZero) THEN I(-1) ELSE ROne
        a == RNeg(RRecip(RAdd(sign, n[3])))
        b == RMul(RMul(n[1], n[2]), a)
    IN  << <<RAdd(ROne, RMul(RMul(RMul(sign, n[1]), n[1]), a)),
             RMul(sign, b), RNeg(RMul(sign, n[1]))>>,
           <<b, RAdd(sign, RMul(RMul(n[2], n[2]), a)), RNeg(n[2])>> >>

\* one jacobian row [-t, ra x (-t), t, rb x t]
jacobian_row(t, ra, rb) ==
    VNeg(t) \o VCross(ra, VNeg(t)) \o t \o VCross(rb, t)

\* the jacobian pre_solve rebuilds: the normal row, and the two friction rows
\* when the combined friction is positive
jacobian_of(normal, u, v, ra, rb, friction) ==
    <<jacobian_row(normal, ra, rb),
      IF RLt(RZero, friction) THEN jacobian_row(u, ra, rb) ELSE RowZero,
      IF RLt(RZero, friction) THEN jacobian_row(v, ra, rb) ELSE RowZero>>

\* self.jacobian.transpose() * self.cached_lambda
TransposeMul(jacobian, lambda) ==
    [c \in 1..12 |->
        RAdd(RAdd(RMul(jacobian[1][c], lambda[1]), RMul(jacobian[2][c], lambda[2])),
             RMul(jacobian[3][c], lambda[3]))]

\* ConstraintConfig::apply_impulses: linear and angular impulse on each body
apply_impulses(bs, config, impulses) ==
    [bs EXCEPT
        ![config.handle_a + 1] =
            apply_impulse_angular(
                apply_impulse_linear(@, SubSeq(impulses, 1, 3)),
                SubSeq(impulses, 4, 6)),
        ![config.handle_b + 1] =
            apply_impulse_angular(
                apply_impulse_linear(@, SubSeq(impulses, 7, 9)),
                SubSeq(impulses, 10, 12))]

\* apply warm starting from last frame
warm_start_twice(bs, config, impulses) ==
    apply_impulses(apply_impulses(bs, config, impulses), config, impulses)
warm_start(bs, config, impulses) == apply_impulses(bs, config, impulses)

\* calculate the baumgarte stabilization
baumgarte_of(a, b, normal, dt_sec) ==
    LET c == RMin(RZero, RAdd(VDot(VSub(b, a), normal), Q(2, 100)))
        beta == Q(25, 100)
    IN  RDiv(RMul(beta, c), Seconds(dt_sec))

\* pre_solve from the rebuilt jacobian on
pre_solve_apply(self, config, bs, dt_sec, friction, jacobian, a, b, normal) ==
    [self |-> [self EXCEPT !.friction = friction, !.jacobian = jacobian,
                           !.baumgarte = baumgarte_of(a, b, normal, dt_sec)],
     bodies |-> warm_start(bs, config, TransposeMul(jacobian, self.cached_lambda))]

\* pre_solve from the world anchors on
pre_solve_at(self, config, bs, dt_sec, body_a, body_b, a, b, uv) ==
    LET ra == VSub(a, centre_of_mass_world(body_a))
        rb == VSub(b, centre_of_mass_world(body_b))
        friction == RMul(body_a.friction, body_b.friction)
        normal == Rotate(body_a.orientation, self.normal)
        u == Rotate(body_a.orientation, uv[1])
        v == Rotate(body_a.orientation, uv[2])
    IN  pre_solve_apply(self, config, bs, dt_sec, friction,
            jacobian_of(normal, u, v, ra, rb, friction), a, b, normal)

\* ConstraintPenetration::pre_solve: the constraint and the arena it leaves
pre_solve(self, config, bs, dt_sec) ==
    pre_solve_at(self, config, bs, dt_sec,
        get_body(bs, config.handle_a), get_body(bs, config.handle_b),
        local_to_world(get_body(bs, config.handle_a), config.anchor_a),
        local_to_world(get_body(bs, config.handle_b), config.anchor_b),
        any_orthonormal_pair(self.normal))

\* pre_solve calls in a row
MaxPreSolveCalls == 2

\* the multipliers an earlier solve may have left in cached_lambda; zero is
\* the value new() gives
CachedLambdaChoices ==
    {VecNZero, <<ROne, RZero, RZero>>, <<I(2), ROne, I(-1)>>}
\* the stored local-space normal; zero is the value new() gives
StoredNormalChoices == {VZero, VX, VY, VNeg(VZ)}
FrictionChoices == {RZero, Q(1, 2)}
PairInvMassChoices == {<<ROne, ROne>>, <<RZero, ROne>>, <<ROne, I(2)>>}
OrientationChoices == {QuatIdentity, VZ}

PenetrationConfig ==
    [handle_a |-> 0, handle_b |-> 1,
     anchor_a |-> <<Q(1, 2), I(0), Q(1, 4)>>,
     anchor_b |-> <<Q(-1, 2), Q(1, 4), I(0)>>,
     axis_a |-> VZero, axis_b |-> VZero]

InitPreSolve ==
    /\ \E lam \in CachedLambdaChoices, n \in StoredNormalChoices,
          f \in FrictionChoices, im \in PairInvMassChoices,
          o \in OrientationChoices :
          /\ bodies =
                << [BodyDefault EXCEPT !.inv_mass = im[1], !.friction = f,
                                       !.orientation = o,
                                       !.linear_velocity = V(1, 0, 0)],
                   [BodyDefault EXCEPT !.inv_mass = im[2], !.friction = ROne,
                                       !.position = <<Q(9, 10), I(0), I(0)>>] >>
          /\ penetration =
                [ConstraintPenetrationNew EXCEPT !.cached_lambda = lam,
                                                 !.normal = n]
          /\ pre = [bodies |-> bodies, cached_lambda |-> lam]
    /\ constraints = <<PenetrationConfig>>
    /\ contacts = <<>>
    /\ step_num = 0
    /\ paused = TRUE
    /\ pc = "presolve"
    /\ delta_seconds = 1
    /\ collision_pairs = <<>>
    /\ accumulated_time = 0
    /\ contact_idx = 0
    /\ events = <<>>
    /\ deltas = <<>>
    /\ acc_after = <<>>
    /\ presolve_calls = 0

\* constraint.pre_solve(&config, &mut bodies, dt_sec)
PreSolve ==
    /\ pc = "presolve"
    /\ presolve_calls < MaxPreSolveCalls
    /\ LET r == pre_solve(penetration, constraints[1], bodies, delta_seconds)
       IN  /\ bodies' = r.bodies
           /\ penetration' = r.self
    /\ presolve_calls' = presolve_calls + 1
    /\ events' = Append(events, "pre_solve")
    /\ UNCHANGED <<constraints, contacts, step_num, paused, pc, delta_seconds,
                   collision_pairs, accumulated_time, contact_idx, deltas,
                   acc_after, pre>>

NextPreSolve == PreSolve

SpecPreSolve == InitPreSolve /\ [][NextPreSolve]_vars

-----------------------------------------------------------------------------
(* properties of pre_solve *)

\* J^T * lambda for the jacobian the constraint holds and the multipliers it
\* held before the first call
WarmStartImpulses == TransposeMul(penetration.jacobian, pre.cached_lambda)

\* velocity after k impulses of linear part lin and angular part ang on body
\* number i of the arena the calls started from
LinearAfter(i, k, lin) ==
    VAdd(pre.bodies[i].linear_velocity,
         VScale(VScale(lin, pre.bodies[i].inv_mass), I(k)))
AngularAfter(i, k, ang) ==
    VAdd(pre.bodies[i].angular_velocity,
         VScale(VScale(ang, RMul(pre.bodies[i].inv_mass, Q(3, 2))), I(k)))

\* C9: pre_solve applies the warm-start impulse J^T * cached_lambda once per
\* call, so k calls in a row change the velocities by k times that impulse,
\* and pre_solve leaves cached_lambda unchanged.
C9_WarmStartOncePerCall ==
    (pc = "presolve" /\ presolve_calls >= 1) =>
        /\ penetration.cached_lambda = pre.cached_lambda
        /\ bodies[1].linear_velocity =
              LinearAfter(1, presolve_calls, SubSeq(WarmStartImpulses, 1, 3))
        /\ bodies[1].angular_velocity =
              AngularAfter(1, presolve_calls, SubSeq(WarmStartImpulses, 4, 6))
        /\ bodies[2].linear_velocity =
              LinearAfter(2, presolve_calls, SubSeq(WarmStartImpulses, 7, 9))
        /\ bodies[2].angular_velocity =
              AngularAfter(2, presolve_calls, SubSeq(WarmStartImpulses, 10, 12))
        /\ \A i \in 1..2 :
              /\ bodies[i].position = pre.bodies[i].position
              /\ bodies[i].orientation = pre.bodies[i].orientation

\* two pre_solve calls in a row with non-zero cached multipliers that changed
\* the velocities of both bodies
C9_Witness ==
    /\ pc = "presolve"
    /\ presolve_calls = 2
    /\ pre.cached_lambda # VecNZero
    /\ bodies[1].linear_velocity # pre.bodies[1].linear_velocity
    /\ bodies[2].angular_velocity # pre.bodies[2].angular_velocity

=============================================================================
